---- MODULE Spec2Model ----
(***************************************************************************)
(* A model of the stewrd Python SDK: the SSE stream decoder (AgentStream), *)
(* the block parser, the response decoders and the client's request path.  *)
(*                                                                         *)
(* Text is a sequence of symbols.  A symbol is either a single character   *)
(* ("\n", " ") or an indivisible run of characters that the code only ever *)
(* treats as a whole (the field prefixes "event:" and "data:", an event    *)
(* tag, a JSON text).  Chunk boundaries fall between symbols.              *)
(***************************************************************************)
EXTENDS Integers, Sequences, FiniteSets, TLC

(***************************************************************************)
(* JSON values, as json.loads returns them.  Every value is a record of    *)
(* the same shape; k is the Python type of the value.                      *)
(***************************************************************************)
EmptyMap == [x \in {} |-> 0]

JStr(s) == [k |-> "str", s |-> s, n |-> 0, o |-> EmptyMap]

JNum(n) == [k |-> "num", s |-> "", n |-> n, o |-> EmptyMap]

JNull == [k |-> "null", s |-> "", n |-> 0, o |-> EmptyMap]

JList == [k |-> "list", s |-> "", n |-> 0, o |-> EmptyMap]

JObj(f) == [k |-> "obj", s |-> "", n |-> 0, o |-> f]

\* Python truthiness of a JSON value (the operand test of `or`).
Truthy(v) ==
    CASE v.k = "null" -> FALSE
      [] v.k = "str"  -> v.s # ""
      [] v.k = "num"  -> v.n # 0
      [] v.k = "list" -> FALSE
      [] v.k = "obj"  -> DOMAIN v.o # {}

\* dict.get(key, default); only called on values for which IsDict holds.
IsDict(v) == v.k = "obj"

Get(d, key, default) == IF key \in DOMAIN d.o THEN d.o[key] ELSE default

(***************************************************************************)
(* types.py: Usage, Meta, ResponseFile list, AgentResponse.                *)
(***************************************************************************)
DefaultUsage == [requests_used |-> JNum(0), requests_limit |-> JNum(0), tokens_used |-> JNum(0)]

DefaultMeta == [duration_ms |-> JNum(0), project_id |-> JStr(""), plan |-> JStr("")]

UsageFromDict(data) ==
    IF ~IsDict(data) THEN [ok |-> FALSE, val |-> DefaultUsage]
    ELSE [ok |-> TRUE,
          val |-> [requests_used  |-> Get(data, "requests_used", JNum(0)),
                   requests_limit |-> Get(data, "requests_limit", JNum(0)),
                   tokens_used    |-> Get(data, "tokens_used", JNum(0))]]

MetaFromDict(data) ==
    IF ~IsDict(data) THEN [ok |-> FALSE, val |-> DefaultMeta]
    ELSE [ok |-> TRUE,
          val |-> [duration_ms |-> Get(data, "duration_ms", JNum(0)),
                   project_id  |-> Get(data, "project_id", JStr("")),
                   plan        |-> Get(data, "plan", JStr(""))]]

\* [ResponseFile.from_dict(f) for f in files]: the modelled JSON values hold
\* no non-empty array; iterating an empty list, string or dict gives [],
\* iterating a non-empty string or dict hands a str to from_dict, and a
\* number or null is not iterable.
FilesFromList(files) ==
    IF files.k = "list" \/ (files.k = "str" /\ files.s = "") \/ (files.k = "obj" /\ DOMAIN files.o = {})
    THEN [ok |-> TRUE, val |-> <<>>]
    ELSE [ok |-> FALSE, val |-> <<>>]

DefaultResponse ==
    [id |-> JStr(""), object |-> JStr("agent.response"), message |-> JStr(""),
     capabilities_used |-> JList, files |-> <<>>, usage |-> DefaultUsage, meta |-> DefaultMeta]

\* data.get("id") or data.get("request_id", "")
ResponseId(data) ==
    IF Truthy(Get(data, "id", JNull)) THEN Get(data, "id", JNull)
    ELSE Get(data, "request_id", JStr(""))

AgentResponseFromDict(data) ==
    IF ~IsDict(data) THEN [ok |-> FALSE, val |-> DefaultResponse]
    ELSE LET files == FilesFromList(Get(data, "files", JList))
             usage == UsageFromDict(Get(data, "usage", JObj(EmptyMap)))
             meta  == MetaFromDict(Get(data, "meta", JObj(EmptyMap)))
         IN  IF ~files.ok \/ ~usage.ok \/ ~meta.ok THEN [ok |-> FALSE, val |-> DefaultResponse]
             ELSE [ok |-> TRUE,
                   val |-> [id |-> ResponseId(data),
                            object |-> Get(data, "object", JStr("agent.response")),
                            message |-> Get(data, "message", JStr("")),
                            capabilities_used |-> Get(data, "capabilities_used", JList),
                            files |-> files.val,
                            usage |-> usage.val,
                            meta |-> meta.val]]

(***************************************************************************)
(* Stream events (types.py) and the outcome of parsing one block.          *)
(***************************************************************************)
TokenEvent(content) == [type |-> "token", content |-> content]

ToolStartEvent(tool) == [type |-> "tool_start", tool |-> tool]

ToolEndEvent(tool) == [type |-> "tool_end", tool |-> tool]

DoneEvent(response, usage) == [type |-> "done", response |-> response, usage |-> usage]

ErrorEvent(code, message) == [type |-> "error", code |-> code, message |-> message]

NoEvent == [type |-> "none"]

\* _parse_sse_block returns None, returns an event, or lets an exception out.
ParsedNone == [r |-> "none", ev |-> NoEvent]

ParsedEvent(ev) == [r |-> "event", ev |-> ev]

ParsedRaise == [r |-> "raise", ev |-> NoEvent]

(***************************************************************************)
(* JSON texts that occur on the wire, and json.loads on them.              *)
(***************************************************************************)
JsonText ==
    ( "{\"content\":\"hi\"}" :> JObj([content |-> JStr("hi")]) ) @@
    ( "{\"tool\":\"search\"}" :> JObj([tool |-> JStr("search")]) ) @@
    ( "{\"code\":\"boom\",\"message\":\"bad\"}" :> JObj([code |-> JStr("boom"), message |-> JStr("bad")]) ) @@
    ( "{}" :> JObj(EmptyMap) ) @@
    ( "5" :> JNum(5) ) @@
    ( "null" :> JNull ) @@
    ( "[]" :> JList ) @@
    ( "\"s\"" :> JStr("s") ) @@
    ( "{\"response\":{\"id\":\"r1\",\"message\":\"done\"},\"usage\":{\"tokens_used\":5}}" :>
        JObj([response |-> JObj([id |-> JStr("r1"), message |-> JStr("done")]),
              usage |-> JObj([tokens_used |-> JNum(5)])]) ) @@
    ( "{\"response\":{\"id\":\"r2\",\"usage\":{\"tokens_used\":7}}}" :>
        JObj([response |-> JObj([id |-> JStr("r2"), usage |-> JObj([tokens_used |-> JNum(7)])])]) ) @@
    ( "{\"response\":{\"id\":\"r3\",\"usage\":{\"tokens_used\":7}},\"usage\":{}}" :>
        JObj([response |-> JObj([id |-> JStr("r3"), usage |-> JObj([tokens_used |-> JNum(7)])]),
              usage |-> JObj(EmptyMap)]) ) @@
    ( "{\"response\":{\"id\":\"r4\",\"usage\":{\"tokens_used\":7}},\"usage\":{\"tokens_used\":5}}" :>
        JObj([response |-> JObj([id |-> JStr("r4"), usage |-> JObj([tokens_used |-> JNum(7)])]),
              usage |-> JObj([tokens_used |-> JNum(5)])]) ) @@
    ( "{\"response\":{\"id\":\"r5\"}}" :> JObj([response |-> JObj([id |-> JStr("r5")])]) ) @@
    ( "{\"response\":{\"id\":\"r6\"},\"usage\":{}}" :>
        JObj([response |-> JObj([id |-> JStr("r6")]), usage |-> JObj(EmptyMap)]) ) @@
    ( "{\"usage\":{\"tokens_used\":5}}" :> JObj([usage |-> JObj([tokens_used |-> JNum(5)])]) ) @@
    ( "{\"usage\":{}}" :> JObj([usage |-> JObj(EmptyMap)]) ) @@
    ( "{\"response\":null}" :> JObj([response |-> JNull]) ) @@
    ( "{\"response\":5}" :> JObj([response |-> JNum(5)]) ) @@
    ( "{\"response\":{\"id\":\"r7\"},\"usage\":5}" :>
        JObj([response |-> JObj([id |-> JStr("r7")]), usage |-> JNum(5)]) ) @@
    ( "{\"response\":{\"id\":\"r8\",\"usage\":{\"tokens_used\":7}},\"usage\":null}" :>
        JObj([response |-> JObj([id |-> JStr("r8"), usage |-> JObj([tokens_used |-> JNum(7)])]),
              usage |-> JNull]) )

\* The characters of a text: its symbols run together.
RECURSIVE Join(_)
Join(s) == IF s = <<>> THEN "" ELSE Head(s) \o Join(Tail(s))

\* json.loads(data): data is the concatenation of the data lines; it is a
\* JSON document iff its characters are those of a JSON text.  (No payload
\* on the wire holds white space inside, and no two payloads run together
\* form a JSON text outside the table.)
JsonLoads(data) ==
    IF Join(data) \in DOMAIN JsonText
    THEN [ok |-> TRUE, val |-> JsonText[Join(data)]]
    ELSE [ok |-> FALSE, val |-> JNull]

(***************************************************************************)
(* Text helpers: str.strip, str.split and the "\n\n" separator search.     *)
(***************************************************************************)
IsSpace(c) == c \in {" ", "\n"}

RECURSIVE LStrip(_)
LStrip(s) == IF s # <<>> /\ IsSpace(Head(s)) THEN LStrip(Tail(s)) ELSE s

RECURSIVE RStrip(_)
RStrip(s) == IF s # <<>> /\ IsSpace(s[Len(s)]) THEN RStrip(SubSeq(s, 1, Len(s) - 1)) ELSE s

Strip(s) == RStrip(LStrip(s))

\* Positions i at which s holds "\n\n" (two consecutive newline characters).
SepPositions(s) == {i \in 1..(Len(s) - 1) : s[i] = "\n" /\ s[i + 1] = "\n"}

\* "\n\n" in buffer
HasSep(s) == SepPositions(s) # {}

FirstSep(s) == CHOOSE i \in SepPositions(s) : \A j \in SepPositions(s) : i <= j

\* block, buffer = buffer.split("\n\n", 1)
SplitOnce(s) ==
    [block |-> SubSeq(s, 1, FirstSep(s) - 1), rest |-> SubSeq(s, FirstSep(s) + 2, Len(s))]

\* block.split("\n"): the lines of a block, in order.
RECURSIVE SplitLines(_)
SplitLines(s) ==
    LET nl == {i \in 1..Len(s) : s[i] = "\n"}
    IN  IF nl = {} THEN <<s>>
        ELSE LET i == CHOOSE i \in nl : \A j \in nl : i <= j
             IN  <<SubSeq(s, 1, i - 1)>> \o SplitLines(SubSeq(s, i + 1, Len(s)))

(***************************************************************************)
(* streaming.py: AgentStream._parse_sse_block                              *)
(***************************************************************************)
\* The for loop with data = ... for data += ...: every data: line
\* overwrites the payload.  What the claims on multi-line data must tell
\* apart from ScanLines.
RECURSIVE ScanLinesOverwrite(_, _, _)
ScanLinesOverwrite(lines, event_type, data) ==
    IF lines = <<>> THEN [event_type |-> event_type, data |-> data]
    ELSE LET line == Head(lines)
         IN  IF line # <<>> /\ Head(line) = "event:"
             THEN ScanLinesOverwrite(Tail(lines), Strip(Tail(line)), data)
             ELSE IF line # <<>> /\ Head(line) = "data:"
             THEN ScanLinesOverwrite(Tail(lines), event_type, Strip(Tail(line)))
             ELSE ScanLinesOverwrite(Tail(lines), event_type, data)

\* The for loop over the lines: the last event: line sets the tag, every
\* data: line appends its trimmed remainder.
RECURSIVE ScanLines(_, _, _)
ScanLines(lines, event_type, data) ==
    IF lines = <<>> THEN [event_type |-> event_type, data |-> data]
    ELSE LET line == Head(lines)
         IN  IF line # <<>> /\ Head(line) = "event:"
             THEN ScanLines(Tail(lines), Strip(Tail(line)), data)
             ELSE IF line # <<>> /\ Head(line) = "data:"
             THEN ScanLines(Tail(lines), event_type, data \o Strip(Tail(line)))
             ELSE ScanLines(Tail(lines), event_type, data)

\* usage_data = parsed.get("usage") or (parsed.get("response") or {}).get("usage", {})
UsageData(parsed) ==
    LET top  == Get(parsed, "usage", JNull)
        resp == Get(parsed, "response", JNull)
        base == IF Truthy(resp) THEN resp ELSE JObj(EmptyMap)
    IN  IF Truthy(top) THEN [ok |-> TRUE, val |-> top]
        ELSE IF ~IsDict(base) THEN [ok |-> FALSE, val |-> JNull]
        ELSE [ok |-> TRUE, val |-> Get(base, "usage", JObj(EmptyMap))]

DoneFromParsed(parsed) ==
    LET resp == AgentResponseFromDict(Get(parsed, "response", JObj(EmptyMap)))
        ud   == UsageData(parsed)
        us   == IF ud.ok THEN UsageFromDict(ud.val) ELSE [ok |-> FALSE, val |-> DefaultUsage]
    IN  IF ~resp.ok \/ ~ud.ok \/ ~us.ok THEN ParsedRaise
        ELSE ParsedEvent(DoneEvent(resp.val, us.val))

KnownTags == {<<"token">>, <<"tool_start">>, <<"tool_end">>, <<"done">>, <<"error">>}

\* A dispatch that takes every tag outside the known set for a token: what
\* the claims on the tag must tell apart from Dispatch.
DispatchUnknownAsToken(event_type, parsed) ==
    IF ~IsDict(parsed) THEN ParsedRaise
    ELSE IF event_type = <<"done">> THEN DoneFromParsed(parsed)
    ELSE ParsedEvent(TokenEvent(Get(parsed, "content", JStr(""))))

Dispatch(event_type, parsed) ==
    IF event_type \notin KnownTags THEN ParsedNone
    ELSE IF ~IsDict(parsed) THEN ParsedRaise
    ELSE CASE event_type = <<"token">> -> ParsedEvent(TokenEvent(Get(parsed, "content", JStr(""))))
           [] event_type = <<"tool_start">> -> ParsedEvent(ToolStartEvent(Get(parsed, "tool", JStr(""))))
           [] event_type = <<"tool_end">> -> ParsedEvent(ToolEndEvent(Get(parsed, "tool", JStr(""))))
           [] event_type = <<"done">> -> DoneFromParsed(parsed)
           [] event_type = <<"error">> ->
                ParsedEvent(ErrorEvent(Get(parsed, "code", JStr("")), Get(parsed, "message", JStr(""))))

ParseBlock(block) ==
    LET sc == ScanLines(SplitLines(block), <<>>, <<>>)
        js == JsonLoads(sc.data)
    IN  IF sc.event_type = <<>> \/ sc.data = <<>> THEN ParsedNone
        ELSE IF ~js.ok THEN ParsedNone
        ELSE Dispatch(sc.event_type, js.val)

(***************************************************************************)
(* client.py: Stewrd._handle_error and the outcome of run() / stream().    *)
(***************************************************************************)
\* An HTTP body: JSON text (val is what response.json() returns) or not.
JsonBody(v) == [json |-> TRUE, val |-> v]

NotJsonBody == [json |-> FALSE, val |-> JNull]

\* response.reason_phrase or "Unknown error"
ReasonOrUnknown(reason) == IF reason # "" THEN JStr(reason) ELSE JStr("Unknown error")

\* _handle_error that reads code and message at the top level of the body
\* only (err = data for err = data.get("error", data)): what the claims on
\* the error mapping must tell apart from HandleError.
HandleErrorTopLevelOnly(status, reason, body) ==
    LET fallback == [status |-> status, code |-> JStr("unknown_error"),
                     message |-> ReasonOrUnknown(reason), docs |-> JNull]
    IN  IF ~body.json \/ ~IsDict(body.val) THEN fallback
        ELSE [status |-> status,
              code |-> Get(body.val, "code", JStr("unknown_error")),
              message |-> Get(body.val, "message", ReasonOrUnknown(reason)),
              docs |-> Get(body.val, "docs", JNull)]

HandleError(status, reason, body) ==
    LET fallback == [status |-> status, code |-> JStr("unknown_error"),
                     message |-> ReasonOrUnknown(reason), docs |-> JNull]
    IN  IF ~body.json \/ ~IsDict(body.val) THEN fallback
        ELSE LET err == Get(body.val, "error", body.val)
             IN  IF ~IsDict(err) THEN fallback
                 ELSE [status |-> status,
                       code |-> Get(err, "code", JStr("unknown_error")),
                       message |-> Get(err, "message", ReasonOrUnknown(reason)),
                       docs |-> Get(err, "docs", JNull)]

NoError == [status |-> 0, code |-> JNull, message |-> JNull, docs |-> JNull]

\* What a call of run() or stream() gave its caller.
NoResult == [kind |-> "none", err |-> NoError, resp |-> DefaultResponse]

StewrdError(err) == [kind |-> "StewrdError", err |-> err, resp |-> DefaultResponse]

OtherException == [kind |-> "exception", err |-> NoError, resp |-> DefaultResponse]

ReturnedResponse(r) == [kind |-> "AgentResponse", err |-> NoError, resp |-> r]

ReturnedStream == [kind |-> "AgentStream", err |-> NoError, resp |-> DefaultResponse]

\* Stewrd("") raised ValueError: the caller holds no client.
ConfigurationError == [kind |-> "ValueError", err |-> NoError, resp |-> DefaultResponse]

\* if response.status_code >= 400: self._handle_error(response)
ErrorStatus(st) == st >= 400

(***************************************************************************)
(* Inputs.                                                                 *)
(***************************************************************************)
\* One status of each class the code can receive.
Statuses == {200, 302, 404, 500}

Reasons == {"", "Not Found"}

IdValues == {JStr(""), JStr("r1"), JStr("q1"), JNull}

IdBodies == {JObj(f) : f \in UNION {[D -> IdValues] : D \in SUBSET {"id", "request_id", "message"}}}

ErrorBodies ==
    {JObj([error |-> JObj([code |-> JStr("invalid_api_key"), message |-> JStr("bad key")])]),
     JObj([code |-> JStr("rate_limited"), message |-> JStr("slow down")]),
     JObj([error |-> JStr("oops")]),
     JObj([error |-> JObj(EmptyMap)]),
     JObj([usage |-> JNum(5)]),
     JList, JNum(5)}

Bodies == {JsonBody(v) : v \in IdBodies \cup ErrorBodies} \cup {NotJsonBody}

NLNL == <<"\n", "\n">>

TokenBlock == <<"event:", " ", "token", "\n", "data:", " ", "{\"content\":\"hi\"}">>

DoneBlock ==
    <<"event:", "done", "\n", "data:",
      "{\"response\":{\"id\":\"r1\",\"message\":\"done\"},\"usage\":{\"tokens_used\":5}}">>

DoneBlock2 == <<"event:", "done", "\n", "data:", "{\"response\":{\"id\":\"r2\",\"usage\":{\"tokens_used\":7}}}">>

EmptyDataBlock == <<"event:", "token", "\n", "data:", " ">>

NotJsonBlock == <<"event:", "token", "\n", "data:", "oops">>

NumberBlock == <<"event:", "token", "\n", "data:", "5">>

PingBlock == <<"event:", "ping", "\n", "data:", "{}">>

\* What the server may send next: a block with its blank line, a block
\* ended by a single newline only, or a lone newline.
Pieces ==
    {TokenBlock \o NLNL, DoneBlock \o NLNL, DoneBlock2 \o <<"\n">>, EmptyDataBlock \o NLNL,
     NotJsonBlock \o NLNL, NumberBlock \o NLNL, PingBlock \o NLNL, <<"\n">>}

\* Bounds of the model.
MaxBlocks == 3

MaxChunk == 8

MaxCalls == 2

(***************************************************************************)
(* State.                                                                  *)
(***************************************************************************)
VARIABLES
    api_key,        \* the api_key argument of Stewrd(...)
    http_client,    \* self._client, the httpx.Client, has been created
    phase,          \* where the caller is: "new", "failed", "ready", "closed", "idle", "iter", "final"
    status,         \* response.status_code of the HTTP response (0: no request yet)
    result,         \* what run() / stream() gave the caller
    open,           \* the streaming HTTP response is entered and not yet closed
    wire,           \* the text the server has sent on the streaming response
    sent,           \* number of pieces the server has sent
    eof,            \* the server has ended the response body
    pos,            \* number of symbols of wire that iter_text() has handed out
    buffer,         \* the local buffer of the running __iter__ generator
    mode,           \* the generator: "none", "need", "held", "heldflush", "ended", "raised"
    final_response, \* self._final_response
    events,         \* events the current plain iteration has yielded to the caller
    itStatus,       \* the latest plain iteration: "none", "running", "broken", "ended", "raised"
    itFrom,         \* pos when the latest plain iteration began
    outcomes,       \* outcome of every final_response() call so far, in order
    calls,          \* number of __iter__ invocations on the stream so far
    blockIn,        \* a block handed to _parse_sse_block on its own
    bodyIn,         \* a JSON body handed to AgentResponse.from_dict on its own
    responseIn,     \* an HTTP response handed to _handle_error on its own
    applied,        \* the function under study has been applied
    parsed,         \* what _parse_sse_block(blockIn) gave
    decoded         \* what AgentResponse.from_dict(body) gave

vars ==
    <<api_key, http_client, phase, status, result, open, wire, sent, eof, pos, buffer, mode, final_response,
      events, itStatus, itFrom, outcomes, calls, blockIn, bodyIn, responseIn, applied, parsed,
      decoded>>

clientVars == <<api_key, http_client>>

fnVars == <<blockIn, bodyIn, responseIn, applied, parsed, decoded>>

Unset == [set |-> FALSE, val |-> DefaultResponse]

\* An __iter__ without self._final_response = event.response: what the
\* claims on the recorded response must tell apart from Recorded.
NotRecorded(r) == [set |-> FALSE, val |-> DefaultResponse]

Recorded(r) == [set |-> TRUE, val |-> r]

ClientInit ==
    /\ phase = "ready"
    /\ status = 0
    /\ result = NoResult
    /\ open = FALSE
    /\ wire = <<>>
    /\ sent = 0
    /\ eof = FALSE
    /\ pos = 0
    /\ buffer = <<>>
    /\ mode = "none"
    /\ final_response = Unset
    /\ events = <<>>
    /\ itStatus = "none"
    /\ itFrom = 0
    /\ outcomes = <<>>
    /\ calls = 0
    /\ applied = FALSE
    /\ parsed = ParsedNone
    /\ decoded = [ok |-> FALSE, val |-> DefaultResponse]
    /\ api_key = "sk-stw_1"
    /\ http_client = TRUE

\* No response: the value of responseIn where _handle_error is not under study.
NoResponse == [status_code |-> 0, reason_phrase |-> "", body |-> NotJsonBody]

Init ==
    /\ ClientInit
    /\ blockIn = <<>>
    /\ bodyIn = JNull
    /\ responseIn = NoResponse

streamVars == <<wire, sent, eof, pos, buffer, mode, final_response, events, itStatus, itFrom, outcomes, calls>>

(***************************************************************************)
(* client.py: _AgentNamespace.run, _AgentNamespace.stream, Stewrd._request *)
(***************************************************************************)
\* run(): POST, then AgentResponse.from_dict(resp.json()).
RunCall(st, reason, body) ==
    /\ phase = "ready"
    /\ phase' = "closed"
    /\ status' = st
    /\ result' = IF ErrorStatus(st) THEN StewrdError(HandleError(st, reason, body))
                 ELSE IF ~body.json THEN OtherException
                 ELSE IF ~AgentResponseFromDict(body.val).ok THEN OtherException
                 ELSE ReturnedResponse(AgentResponseFromDict(body.val).val)
    /\ UNCHANGED <<open, streamVars, fnVars, clientVars>>

\* stream(): enter the streaming response; an error status reads the
\* body, leaves the context and raises; any other status wraps the response.
\* readOk: resp.read() of the error body succeeds.
StreamCall(st, reason, body, readOk) ==
    /\ phase = "ready"
    /\ status' = st
    /\ IF ErrorStatus(st)
       THEN /\ phase' = "closed"
            /\ open' = ~readOk
            /\ result' = IF readOk THEN StewrdError(HandleError(st, reason, body)) ELSE OtherException
       ELSE /\ phase' = "idle"
            /\ open' = TRUE
            /\ result' = ReturnedStream
    /\ UNCHANGED <<streamVars, fnVars, clientVars>>

(***************************************************************************)
(* streaming.py: AgentStream.__iter__ and AgentStream.final_response       *)
(***************************************************************************)
\* The while loop of __iter__ from a buffer up to its next suspension: a
\* yield, an exception out of the parser, or no separator left.  Inside
\* final_response (skip) the for loop resumes at once after every event
\* that is not a DoneEvent.
RECURSIVE RunLoop(_, _)
RunLoop(buf, skip) ==
    IF ~HasSep(buf) THEN [buffer |-> buf, out |-> ParsedNone]
    ELSE LET sp == SplitOnce(buf)
             p  == ParseBlock(sp.block)
         IN  IF p.r = "none" \/ (skip /\ p.r = "event" /\ p.ev.type # "done")
             THEN RunLoop(sp.rest, skip)
             ELSE [buffer |-> sp.rest, out |-> p]

\* A decoder without the flush after the chunk loop (the remainder is
\* dropped): what the claims on the final block must tell apart from Flush.
FlushDropped(buf) == ParsedNone

\* if buffer.strip(): event = self._parse_sse_block(buffer)
Flush(buf) == IF Strip(buf) # <<>> THEN ParseBlock(buf) ELSE ParsedNone

Returned(r) == [kind |-> "returned", resp |-> r]

ProtocolError == [kind |-> "protocol_error", resp |-> DefaultResponse]

Propagated == [kind |-> "exception", resp |-> DefaultResponse]

\* The generator ran from a resume point to its next suspension with
\* buffer buf and parse outcome out; flushing: it is past the chunk loop.
Suspend(buf, out, flushing) ==
    LET isDone == out.r = "event" /\ out.ev.type = "done"
        over   == flushing /\ (out.r = "none" \/ (phase = "final" /\ out.r = "event" /\ ~isDone))
    IN  /\ final_response' = IF isDone THEN Recorded(out.ev.response) ELSE final_response
        /\ IF phase = "iter"
           THEN /\ outcomes' = outcomes
                /\ IF out.r = "event"
                   THEN /\ events' = Append(events, out.ev)
                        /\ mode' = IF flushing THEN "heldflush" ELSE "held"
                        /\ buffer' = buf
                        /\ UNCHANGED <<phase, itStatus>>
                   ELSE IF out.r = "raise"
                   THEN /\ mode' = "raised"
                        /\ buffer' = <<>>
                        /\ phase' = "idle"
                        /\ itStatus' = "raised"
                        /\ UNCHANGED events
                   ELSE IF over
                   THEN /\ mode' = "ended"
                        /\ buffer' = <<>>
                        /\ phase' = "idle"
                        /\ itStatus' = "ended"
                        /\ UNCHANGED events
                   ELSE /\ mode' = "need"
                        /\ buffer' = buf
                        /\ UNCHANGED <<phase, itStatus, events>>
           ELSE /\ UNCHANGED <<events, itStatus>>
                /\ IF isDone
                   THEN /\ outcomes' = Append(outcomes, Returned(out.ev.response))
                        /\ mode' = "none"
                        /\ buffer' = <<>>
                        /\ phase' = "idle"
                   ELSE IF out.r = "raise"
                   THEN /\ outcomes' = Append(outcomes, Propagated)
                        /\ mode' = "raised"
                        /\ buffer' = <<>>
                        /\ phase' = "idle"
                   ELSE IF over
                   THEN /\ outcomes' = Append(outcomes, IF final_response.set
                                                        THEN Returned(final_response.val)
                                                        ELSE ProtocolError)
                        /\ mode' = "ended"
                        /\ buffer' = <<>>
                        /\ phase' = "idle"
                   ELSE /\ outcomes' = outcomes
                        /\ mode' = "need"
                        /\ buffer' = buf
                        /\ UNCHANGED phase

\* The server sends one more piece of the body while the decoder waits.
ServerSend(piece) ==
    /\ phase \in {"iter", "final"}
    /\ mode = "need"
    /\ ~eof
    /\ sent < MaxBlocks
    /\ Len(wire) - pos < MaxChunk
    /\ wire' = wire \o piece
    /\ sent' = sent + 1
    /\ UNCHANGED <<phase, status, result, open, eof, pos, buffer, mode, final_response,
                   events, itStatus, itFrom, outcomes, calls, fnVars, clientVars>>

\* for event in stream: a new generator runs up to its first read.  The
\* caller iterates a stream at most once, before any final_response().
IterStart ==
    /\ phase = "idle"
    /\ calls = 0
    /\ phase' = "iter"
    /\ calls' = calls + 1
    /\ buffer' = <<>>
    /\ mode' = "need"
    /\ events' = <<>>
    /\ itStatus' = "running"
    /\ itFrom' = pos
    /\ UNCHANGED <<status, result, open, wire, sent, eof, pos, final_response, outcomes, fnVars, clientVars>>

\* stream.final_response(): its for loop makes a new generator.
FinalStart ==
    /\ phase = "idle"
    /\ calls < MaxCalls
    /\ phase' = "final"
    /\ calls' = calls + 1
    /\ buffer' = <<>>
    /\ mode' = "need"
    /\ UNCHANGED <<status, result, open, wire, sent, eof, pos, final_response, events,
                   itStatus, itFrom, outcomes, fnVars, clientVars>>

\* A decoder that forgets its buffer at every chunk (buffer = chunk for
\* buffer += chunk): what the claims must tell apart from ReadChunk.
ReadChunkNoAccumulate(n) ==
    /\ phase \in {"iter", "final"}
    /\ mode = "need"
    /\ n >= 1
    /\ pos + n <= Len(wire)
    /\ pos' = pos + n
    /\ LET r == RunLoop(SubSeq(wire, pos + 1, pos + n), phase = "final")
       IN  Suspend(r.buffer, r.out, FALSE)
    /\ UNCHANGED <<status, result, open, wire, sent, eof, itFrom, calls, fnVars, clientVars>>

\* iter_text() hands out the next chunk of n symbols: buffer += chunk, then
\* the while loop.
ReadChunk(n) ==
    /\ phase \in {"iter", "final"}
    /\ mode = "need"
    /\ n >= 1
    /\ pos + n <= Len(wire)
    /\ pos' = pos + n
    /\ LET r == RunLoop(buffer \o SubSeq(wire, pos + 1, pos + n), phase = "final")
       IN  Suspend(r.buffer, r.out, FALSE)
    /\ UNCHANGED <<status, result, open, wire, sent, eof, itFrom, calls, fnVars, clientVars>>

\* iter_text() is exhausted: the transport closes the response and the
\* generator flushes what is left in the buffer.
EndOfStream ==
    /\ phase \in {"iter", "final"}
    /\ mode = "need"
    /\ pos = Len(wire)
    /\ eof' = TRUE
    /\ open' = FALSE
    /\ Suspend(buffer, Flush(buffer), TRUE)
    /\ UNCHANGED <<status, result, wire, sent, pos, itFrom, calls, fnVars, clientVars>>

\* A generator that, resumed after a yield, goes straight back to the
\* transport for the next chunk instead of re-testing the while condition:
\* what the claims on pull-based decoding must tell apart from Resume.
ResumeReadsNext ==
    /\ phase = "iter"
    /\ mode \in {"held", "heldflush"}
    /\ IF mode = "held"
       THEN Suspend(buffer, ParsedNone, FALSE)
       ELSE Suspend(<<>>, ParsedNone, TRUE)
    /\ UNCHANGED <<status, result, open, wire, sent, eof, pos, itFrom, calls, fnVars, clientVars>>

\* The caller's for loop asks for the next event: the generator resumes
\* after its yield.
Resume ==
    /\ phase = "iter"
    /\ mode \in {"held", "heldflush"}
    /\ IF mode = "held"
       THEN LET r == RunLoop(buffer, FALSE) IN Suspend(r.buffer, r.out, FALSE)
       ELSE Suspend(<<>>, ParsedNone, TRUE)
    /\ UNCHANGED <<status, result, open, wire, sent, eof, pos, itFrom, calls, fnVars, clientVars>>

\* The caller leaves its for loop at an event (break): the generator and
\* its buffer are dropped.
Break ==
    /\ phase = "iter"
    /\ mode \in {"held", "heldflush"}
    /\ phase' = "idle"
    /\ mode' = "none"
    /\ buffer' = <<>>
    /\ itStatus' = "broken"
    /\ UNCHANGED <<status, result, open, wire, sent, eof, pos, final_response, events,
                   itFrom, outcomes, calls, fnVars, clientVars>>

Next ==
    \/ \E st \in Statuses, reason \in Reasons, body \in Bodies : RunCall(st, reason, body)
    \/ \E st \in Statuses, reason \in Reasons, body \in Bodies, readOk \in BOOLEAN :
          StreamCall(st, reason, body, readOk)
    \/ \E piece \in Pieces : ServerSend(piece)
    \/ IterStart
    \/ FinalStart
    \/ \E n \in 1..MaxChunk : ReadChunk(n)
    \/ EndOfStream
    \/ Resume
    \/ Break

Spec == Init /\ [][Next]_vars

\* The caller only ever iterates the stream per event: stream(), then one
\* for loop over the events, run to the end or left by break.
NextIter ==
    \/ \E st \in Statuses, reason \in Reasons, body \in Bodies, readOk \in BOOLEAN :
          StreamCall(st, reason, body, readOk)
    \/ \E piece \in Pieces : ServerSend(piece)
    \/ IterStart
    \/ \E n \in 1..MaxChunk : ReadChunk(n)
    \/ EndOfStream
    \/ Resume
    \/ Break

SpecIter == Init /\ [][NextIter]_vars

(***************************************************************************)
(* The block parser and the response decoder on their own: the input is    *)
(* drawn from a bounded set and the function is applied to it once.        *)
(***************************************************************************)
Tags == {"token", "tool_start", "tool_end", "done", "error", "ping"}

Payloads == DOMAIN JsonText \cup {"oops"}

ParseInputs ==
    {<<"event:", " ", tag, "\n", "data:", " ", payload>> : tag \in Tags, payload \in Payloads}
        \cup {<<"event:", tag, "\n", "data:", " ">> : tag \in Tags}

ParseInit ==
    /\ ClientInit
    /\ blockIn \in ParseInputs
    /\ bodyIn = JNull
    /\ responseIn = NoResponse

ParseStep ==
    /\ ~applied
    /\ applied' = TRUE
    /\ parsed' = ParseBlock(blockIn)
    /\ UNCHANGED <<phase, status, result, open, streamVars, blockIn, bodyIn, responseIn, decoded,
                   clientVars>>

SpecParse == ParseInit /\ [][ParseStep]_vars

DecodeInit ==
    /\ ClientInit
    /\ blockIn = <<>>
    /\ bodyIn \in IdBodies \cup ErrorBodies
    /\ responseIn = NoResponse

\* run() on a 2xx response: AgentResponse.from_dict(resp.json())
RunDecode ==
    /\ ~applied
    /\ applied' = TRUE
    /\ decoded' = AgentResponseFromDict(bodyIn)
    /\ UNCHANGED <<phase, status, result, open, streamVars, blockIn, bodyIn, responseIn, parsed,
                   clientVars>>

SpecDecode == DecodeInit /\ [][RunDecode]_vars

\* The block parser on blocks of one to three lines of every kind: event:
\* lines, data: lines that each carry a part of the payload, comment and
\* id: lines, and a line whose data: comes after a leading blank.
ScanLineKinds ==
    {<<"event:", " ", "token">>, <<"event:", "tool_start", " ">>, <<"event:", " ">>,
     <<"data:", " ", "{\"content\":">>, <<"data:", "\"hi\"}", " ">>, <<"data:", "{}">>,
     <<":", "keepalive">>, <<"id:", "7">>, <<" ", "data:", "{}">>}

MaxLines == 3

RECURSIVE JoinLines(_)
JoinLines(lines) ==
    IF Len(lines) = 1 THEN Head(lines) ELSE Head(lines) \o <<"\n">> \o JoinLines(Tail(lines))

ScanInputs == {JoinLines(ls) : ls \in UNION {[1..n -> ScanLineKinds] : n \in 1..MaxLines}}

ScanInit ==
    /\ ClientInit
    /\ blockIn \in ScanInputs
    /\ bodyIn = JNull
    /\ responseIn = NoResponse

SpecScan == ScanInit /\ [][ParseStep]_vars

\* The api_key arguments a caller may pass: none, or a key.
Keys == {"", "sk-stw_1"}

ConstructInit ==
    /\ api_key \in Keys
    /\ http_client = FALSE
    /\ phase = "new"
    /\ status = 0
    /\ result = NoResult
    /\ open = FALSE
    /\ wire = <<>>
    /\ sent = 0
    /\ eof = FALSE
    /\ pos = 0
    /\ buffer = <<>>
    /\ mode = "none"
    /\ final_response = Unset
    /\ events = <<>>
    /\ itStatus = "none"
    /\ itFrom = 0
    /\ outcomes = <<>>
    /\ calls = 0
    /\ applied = FALSE
    /\ parsed = ParsedNone
    /\ decoded = [ok |-> FALSE, val |-> DefaultResponse]
    /\ blockIn = <<>>
    /\ bodyIn = JNull
    /\ responseIn = NoResponse

\* Stewrd.__init__ without the api_key test: what the claim on construction
\* must tell apart from Construct.
ConstructUnchecked ==
    /\ phase = "new"
    /\ phase' = "ready"
    /\ http_client' = TRUE
    /\ UNCHANGED <<api_key, status, result, open, streamVars, fnVars>>

\* Stewrd.__init__: if not api_key: raise ValueError; else store the key,
\* create the httpx.Client and the agent namespace.
Construct ==
    /\ phase = "new"
    /\ IF api_key = ""
       THEN /\ phase' = "failed"
            /\ result' = ConfigurationError
            /\ http_client' = FALSE
       ELSE /\ phase' = "ready"
            /\ result' = result
            /\ http_client' = TRUE
    /\ UNCHANGED <<api_key, status, open, streamVars, fnVars>>

\* The constructor, then run() or stream() and one plain iteration.
NextConstruct ==
    \/ Construct
    \/ \E st \in Statuses, reason \in Reasons, body \in Bodies : RunCall(st, reason, body)
    \/ NextIter

SpecConstruct == ConstructInit /\ [][NextConstruct]_vars

\* _handle_error on its own: any error status, reason phrase and body.
ErrorResponses ==
    {[status_code |-> st, reason_phrase |-> reason, body |-> body] :
        st \in {s \in Statuses : ErrorStatus(s)}, reason \in Reasons, body \in Bodies}

ErrorInit ==
    /\ ClientInit
    /\ blockIn = <<>>
    /\ bodyIn = JNull
    /\ responseIn \in ErrorResponses

\* self._handle_error(response): always leaves by raise StewrdError(...).
HandleErrorStep ==
    /\ ~applied
    /\ applied' = TRUE
    /\ status' = responseIn.status_code
    /\ result' = StewrdError(HandleError(responseIn.status_code, responseIn.reason_phrase,
                                         responseIn.body))
    /\ UNCHANGED <<phase, open, streamVars, blockIn, bodyIn, responseIn, parsed, decoded, clientVars>>

SpecError == ErrorInit /\ [][HandleErrorStep]_vars

(***************************************************************************)
(* Reference notions on the text of a whole stream, independent of how it  *)
(* was cut into chunks.                                                    *)
(***************************************************************************)
\* The blocks that are complete on the wire: each ended by its "\n\n".
RECURSIVE CompleteBlocks(_)
CompleteBlocks(text) ==
    IF HasSep(text) THEN <<SplitOnce(text).block>> \o CompleteBlocks(SplitOnce(text).rest)
    ELSE <<>>

RECURSIVE Remainder(_)
Remainder(text) == IF HasSep(text) THEN Remainder(SplitOnce(text).rest) ELSE text

\* The blocks of a stream that has ended: the complete blocks, and the
\* text after the last separator if it is more than white space.
AllBlocks(text) ==
    CompleteBlocks(text) \o (IF Strip(Remainder(text)) # <<>> THEN <<Remainder(text)>> ELSE <<>>)

WireBlocks == IF eof THEN AllBlocks(wire) ELSE CompleteBlocks(wire)

\* The events of the blocks that decode to one, in block order.
RECURSIVE BlockEvents(_)
BlockEvents(blocks) ==
    IF blocks = <<>> THEN <<>>
    ELSE (IF ParseBlock(Head(blocks)).r = "event" THEN <<ParseBlock(Head(blocks)).ev>> ELSE <<>>)
             \o BlockEvents(Tail(blocks))

Raises(b) == ParseBlock(b).r = "raise"

IsDoneBlock(b) == ParseBlock(b).r = "event" /\ ParseBlock(b).ev.type = "done"

\* The data payload of the block is empty or is not JSON.
BadData(b) ==
    LET sc == ScanLines(SplitLines(b), <<>>, <<>>)
    IN  sc.data = <<>> \/ ~JsonLoads(sc.data).ok

IsSuffix(s, t) == Len(s) <= Len(t) /\ SubSeq(t, Len(t) - Len(s) + 1, Len(t)) = s

\* Iterating a stream that is handed over as one single chunk: the events
\* it yields and how it ends.
RECURSIVE IterateFrom(_, _)
IterateFrom(buf, acc) ==
    LET r == RunLoop(buf, FALSE)
    IN  IF r.out.r = "event" THEN IterateFrom(r.buffer, Append(acc, r.out.ev))
        ELSE IF r.out.r = "raise" THEN [events |-> acc, status |-> "raised"]
        ELSE IF Flush(r.buffer).r = "event"
             THEN [events |-> Append(acc, Flush(r.buffer).ev), status |-> "ended"]
        ELSE IF Flush(r.buffer).r = "raise" THEN [events |-> acc, status |-> "raised"]
        ELSE [events |-> acc, status |-> "ended"]

IterateWhole(text) == IterateFrom(text, <<>>)

\* The caller's plain iteration of a freshly opened stream is over.
IterationOver == phase = "idle" /\ calls = 1 /\ itStatus \in {"ended", "raised"}

(***************************************************************************)
(* Claims.                                                                 *)
(***************************************************************************)
\* C1: re-chunking invariance.  However the text of the stream is cut into
\* chunks, a plain iteration yields the same events, and ends the same way,
\* as the iteration that receives the whole text as one chunk; so any two
\* ways of cutting the text yield the identical event sequence.
C1_Rechunking ==
    IterationOver =>
        /\ events = IterateWhole(wire).events
        /\ itStatus = IterateWhole(wire).status

\* C1 witness: an iteration over a text longer than any single chunk, cut
\* into several chunks, ran to the end and yielded two or more events.
C1_Witness ==
    /\ IterationOver
    /\ itStatus = "ended"
    /\ Len(wire) > MaxChunk
    /\ Len(events) >= 2

\* C2: if the stream holds a done block, every final_response() call
\* returns the response of a done block and never raises the protocol
\* error, whatever the caller iterated before.  (Stated for streams none
\* of whose blocks makes the parser raise.)
C2_FinalAfterAbandon ==
    ((\E i \in 1..Len(AllBlocks(wire)) : IsDoneBlock(AllBlocks(wire)[i]))
        /\ (\A i \in 1..Len(AllBlocks(wire)) : ~Raises(AllBlocks(wire)[i])))
    => \A k \in 1..Len(outcomes) :
          /\ outcomes[k].kind = "returned"
          /\ \E i \in 1..Len(AllBlocks(wire)) :
                /\ IsDoneBlock(AllBlocks(wire)[i])
                /\ ParseBlock(AllBlocks(wire)[i]).ev.response = outcomes[k].resp

\* C3: a DoneEvent is the last event a plain iteration yields: after a
\* DoneEvent no further event of any variant is yielded.
C3_DoneIsLast == \A i \in 1..Len(events) : events[i].type = "done" => i = Len(events)

\* C4: when a plain iteration is over, the events it yielded are exactly
\* the events of the decodable blocks on the wire, in block order: none
\* dropped, none duplicated, none out of order.
C4_Ordering == IterationOver => events = BlockEvents(WireBlocks)

\* C5: on a stream none of whose blocks is a done block, every
\* final_response() call raises the protocol error, one outcome per call,
\* and only once every chunk is consumed and the stream has ended.
C5_ProtocolError ==
    /\ Len(outcomes) <= calls
    /\ (\A i \in 1..Len(AllBlocks(wire)) : ~IsDoneBlock(AllBlocks(wire)[i]))
          => \A k \in 1..Len(outcomes) : outcomes[k].kind = "protocol_error"
    /\ (outcomes # <<>> /\ outcomes[Len(outcomes)].kind = "protocol_error")
          => (eof /\ pos = Len(wire))

\* C6: once control has left the streaming call or the iteration (stream()
\* raised; the consumer exhausted the sequence, stopped early or got an
\* exception), the HTTP response is closed.
C6_ResponseClosed == (phase = "closed" \/ (phase = "idle" /\ calls >= 1)) => ~open

\* C7: a block whose data payload is empty or not JSON yields no event, and
\* every decodable block after it on the wire still yields its event, in
\* order.
C7_BadBlockSkipped ==
    IterationOver =>
        \A i \in 1..Len(WireBlocks) :
            BadData(WireBlocks[i]) =>
                /\ ParseBlock(WireBlocks[i]).r = "none"
                /\ IsSuffix(BlockEvents(SubSeq(WireBlocks, i + 1, Len(WireBlocks))), events)

\* C8: for every response whose status is outside 200-299, run() and
\* stream() fail with the API error carrying that status and return neither
\* an AgentResponse nor an AgentStream.  (A failed read of the error body,
\* which leaves the response open, is a transport failure and is set aside.)
C8_Non2xxFails ==
    (phase # "ready" /\ ~(status \in 200..299) /\ ~(phase = "closed" /\ open))
        => (result.kind = "StewrdError" /\ result.err.status = status)

\* C9: the usage of a DoneEvent is decoded from the top-level usage object
\* whenever the usage key is present, whatever the object holds; from the
\* usage object inside response only when the top-level key is absent; and
\* is all zero when both are absent.
C9_UsageSource ==
    LET js  == JsonLoads(ScanLines(SplitLines(blockIn), <<>>, <<>>).data)
        top == Get(js.val, "usage", JNull)
        rsp == Get(js.val, "response", JObj(EmptyMap))
    IN  (applied /\ parsed.r = "event" /\ parsed.ev.type = "done")
            => IF "usage" \in DOMAIN js.val.o
               THEN IsDict(top) => parsed.ev.usage = UsageFromDict(top).val
               ELSE IF "usage" \in DOMAIN rsp.o
               THEN parsed.ev.usage = UsageFromDict(Get(rsp, "usage", JNull)).val
               ELSE parsed.ev.usage = DefaultUsage

\* C10: the id of the decoded AgentResponse is the body's id field whenever
\* the id key is present, the empty string included; the request_id field
\* when the id key is absent; and the empty string when both keys are
\* absent.  (Stated for bodies whose id and request_id are strings.)
C10_IdSource ==
    (applied /\ decoded.ok /\ \A key \in DOMAIN bodyIn.o \cap {"id", "request_id"} : bodyIn.o[key].k = "str")
        => IF "id" \in DOMAIN bodyIn.o
           THEN decoded.val.id = bodyIn.o["id"]
           ELSE IF "request_id" \in DOMAIN bodyIn.o
           THEN decoded.val.id = bodyIn.o["request_id"]
           ELSE decoded.val.id = JStr("")

\* The error object of an error body: the object under the error key, the
\* body itself when it is an object without an error key, else none.
HasErrorObject(body) ==
    /\ body.json
    /\ IsDict(body.val)
    /\ ("error" \in DOMAIN body.val.o => IsDict(body.val.o["error"]))

ErrorObject(body) == IF "error" \in DOMAIN body.val.o THEN body.val.o["error"] ELSE body.val

HasField(body, key) == HasErrorObject(body) /\ key \in DOMAIN ErrorObject(body).o

\* C11 (as stated): _handle_error raises a StewrdError with the response's
\* status, code from the error object or "unknown_error" if absent, and
\* message from the error object or the HTTP reason phrase if absent.
C11_ErrorMappingAsStated ==
    applied =>
        /\ result.kind = "StewrdError"
        /\ result.err.status = responseIn.status_code
        /\ result.err.code = IF HasField(responseIn.body, "code")
                             THEN ErrorObject(responseIn.body).o["code"]
                             ELSE JStr("unknown_error")
        /\ result.err.message = IF HasField(responseIn.body, "message")
                                THEN ErrorObject(responseIn.body).o["message"]
                                ELSE JStr(responseIn.reason_phrase)

\* C11 (amended): as above, except that with no message in the error
\* object the message is the HTTP reason phrase if that is non-empty and
\* "Unknown error" if the reason phrase is empty.
C11_ErrorMapping ==
    applied =>
        /\ result.kind = "StewrdError"
        /\ result.err.status = responseIn.status_code
        /\ result.err.code = IF HasField(responseIn.body, "code")
                             THEN ErrorObject(responseIn.body).o["code"]
                             ELSE JStr("unknown_error")
        /\ result.err.message = IF HasField(responseIn.body, "message")
                                THEN ErrorObject(responseIn.body).o["message"]
                                ELSE IF responseIn.reason_phrase # ""
                                THEN JStr(responseIn.reason_phrase)
                                ELSE JStr("Unknown error")

\* C11 witness: a body whose error key holds a non-object was mapped to a
\* StewrdError with the default code and the reason phrase as message.
C11_Witness ==
    /\ applied
    /\ result.kind = "StewrdError"
    /\ responseIn.body = JsonBody(JObj([error |-> JStr("oops")]))
    /\ responseIn.reason_phrase = "Not Found"
    /\ result.err.code = JStr("unknown_error")
    /\ result.err.message = JStr("Not Found")

C13_EmptyKeyFails ==
    api_key = "" =>
        /\ phase \in {"new", "failed"}
        /\ phase = "failed" => result = ConfigurationError
        /\ ~http_client
        /\ status = 0
        /\ ~open

\* C13 witness: construction with the empty key has failed.
C13_Witness == api_key = "" /\ phase = "failed" /\ result.kind = "ValueError"

\* C14: when the chunk sequence has ended during a plain iteration, the
\* text left after the last "\n\n", if it is more than white space, was
\* parsed as one final block and its event, if any, was yielded once, after
\* the events of all earlier blocks; a remainder that is empty or white
\* space yielded nothing.
C14_FlushRemainder ==
    (IterationOver /\ eof) =>
        LET rem     == Remainder(wire)
            earlier == BlockEvents(CompleteBlocks(wire))
        IN  events = IF Strip(rem) # <<>> /\ ParseBlock(rem).r = "event"
                     THEN Append(earlier, ParseBlock(rem).ev)
                     ELSE earlier

\* C14 witness: a stream ended without a trailing blank line; the final
\* block's event was yielded after the event of an earlier block.
C14_Witness ==
    /\ IterationOver
    /\ eof
    /\ Strip(Remainder(wire)) # <<>>
    /\ ParseBlock(Remainder(wire)).r = "event"
    /\ Len(events) >= 2
    /\ events[Len(events)] = ParseBlock(Remainder(wire)).ev

\* C15: the decoder goes to the transport for the next chunk (or for the
\* end of the chunks) only while the caller is waiting for the next event
\* and the buffer holds no complete block; at that moment every event of
\* every block completed by the chunks read so far has been yielded.
C15_PullBased ==
    [][(pos' # pos \/ eof' # eof) =>
          /\ phase \in {"iter", "final"}
          /\ mode = "need"
          /\ ~HasSep(buffer)
          /\ phase = "iter" =>
                events = BlockEvents(CompleteBlocks(SubSeq(wire, itFrom + 1, pos)))]_vars

\* C15 witness: one chunk completed more than one block; the caller holds
\* the event of the first, the next block is still in the buffer.
C15_Witness ==
    /\ phase = "iter"
    /\ mode = "held"
    /\ HasSep(buffer)
    /\ Len(events) >= 1
    /\ ParseBlock(SplitOnce(buffer).block).r = "event"

\* The lines of a block that start with a given field prefix, in order.
FieldLines(block, prefix) ==
    SelectSeq(SplitLines(block), LAMBDA line : line # <<>> /\ Head(line) = prefix)

\* The trimmed remainders of a sequence of field lines, run together.
RECURSIVE Remainders(_)
Remainders(lines) ==
    IF lines = <<>> THEN <<>> ELSE Strip(Tail(Head(lines))) \o Remainders(Tail(lines))

\* The trimmed remainder of the last event: line of a block, if any.
LastTag(block) ==
    LET ev == FieldLines(block, "event:")
    IN  IF ev = <<>> THEN <<>> ELSE Strip(Tail(ev[Len(ev)]))

\* C16: the block parser works on the concatenation, in line order, of the
\* trimmed remainders of all data: lines and on the trimmed remainder of
\* the last event: line; lines with neither prefix change nothing.  Its
\* outcome is that of JSON-parsing that payload and dispatching on that tag.
C16_DataConcatenated ==
    applied =>
        LET data == Remainders(FieldLines(blockIn, "data:"))
            tag  == LastTag(blockIn)
        IN  parsed = IF tag = <<>> \/ data = <<>> \/ ~JsonLoads(data).ok THEN ParsedNone
                     ELSE Dispatch(tag, JsonLoads(data).val)

\* C16 witness: a payload split over two data: lines of a three-line
\* block was parsed as the whole payload.
C16_Witness ==
    /\ applied
    /\ Len(FieldLines(blockIn, "data:")) = 2
    /\ Len(FieldLines(blockIn, "event:")) = 1
    /\ Len(SplitLines(blockIn)) = 3
    /\ parsed = ParsedEvent(TokenEvent(JStr("hi")))

\* The block's tag is not one of the five known tags.
HasOtherTag(b) == LastTag(b) \notin KnownTags

\* The text of a stream without its complete blocks of another tag.
RECURSIVE DropOtherTags(_)
DropOtherTags(text) ==
    IF ~HasSep(text) THEN text
    ELSE IF HasOtherTag(SplitOnce(text).block) THEN DropOtherTags(SplitOnce(text).rest)
    ELSE SplitOnce(text).block \o NLNL \o DropOtherTags(SplitOnce(text).rest)

\* C17: a block yields an event only if its tag is one of token,
\* tool_start, tool_end, done, error, and the event's type is that tag; a
\* block with any other tag yields nothing and changes nothing for the
\* blocks after it: the iteration goes as on the stream without that block.
C17_TagDispatch ==
    /\ \A i \in 1..Len(events) : <<events[i].type>> \in KnownTags
    /\ \A i \in 1..Len(AllBlocks(wire)) :
          LET b == AllBlocks(wire)[i]
          IN  /\ ParseBlock(b).r = "event" => <<ParseBlock(b).ev.type>> = LastTag(b)
              /\ HasOtherTag(b) => ParseBlock(b).r = "none"
    /\ IterationOver =>
          /\ events = IterateWhole(DropOtherTags(wire)).events
          /\ itStatus = IterateWhole(DropOtherTags(wire)).status

\* C17 witness: an iteration ran to the end over a stream that holds a
\* block tagged ping with a JSON payload and, after it, a block that
\* yielded its event.
C17_Witness ==
    /\ IterationOver
    /\ itStatus = "ended"
    /\ \E i, j \in 1..Len(CompleteBlocks(wire)) :
          /\ i < j
          /\ CompleteBlocks(wire)[i] = PingBlock
          /\ ParseBlock(CompleteBlocks(wire)[j]).r = "event"
          /\ events # <<>>
          /\ events[Len(events)] = ParseBlock(CompleteBlocks(wire)[j]).ev

\* This step produced a DoneEvent: a plain iteration yielded it, or the
\* loop of final_response() received it (from a chunk, or from the flush at
\* the end of the chunks) and returned its response.
ProducedDone ==
    \/ /\ phase = "iter"
       /\ Len(events') = Len(events) + 1
       /\ events'[Len(events')].type = "done"
    \/ /\ phase = "final"
       /\ Len(outcomes') = Len(outcomes) + 1
       /\ outcomes'[Len(outcomes')].kind = "returned"
       /\ \/ pos' # pos
          \/ (Flush(buffer).r = "event" /\ Flush(buffer).ev.type = "done")

\* The response carried by the DoneEvent this step produced.
ProducedResponse ==
    IF phase = "iter" THEN events'[Len(events')].response ELSE outcomes'[Len(outcomes')].resp

\* C18: the recorded final response is unset at first; a step that
\* produces a DoneEvent leaves the record equal to that event's response,
\* in the same step that hands the event over; every other step leaves the
\* record as it is.  So the record is unset until an iteration produces a
\* DoneEvent and is the response of the latest DoneEvent from then on.
C18_RecordedResult ==
    /\ final_response = Unset
    /\ [][final_response' = IF ProducedDone
                            THEN [set |-> TRUE, val |-> ProducedResponse]
                            ELSE final_response]_vars

\* C18 witness: an iteration has produced two DoneEvents with different
\* responses, and the record is the response of the later one.
C18_Witness ==
    /\ Len(events) >= 2
    /\ events[Len(events) - 1].type = "done"
    /\ events[Len(events)].type = "done"
    /\ events[Len(events) - 1].response # events[Len(events)].response
    /\ final_response = [set |-> TRUE, val |-> events[Len(events)].response]

\* C19: the block parser is total: for every block, whatever its JSON
\* payload, _parse_sse_block returns nothing or one event and lets no
\* exception out.
C19_ParserTotal == applied => parsed.r \in {"none", "event"}

====
